---- MODULE Spec2Model ----
(***************************************************************************)
(* State-machine model of compress-aerial-images.py: the module-level      *)
(* CUDA check, check_gpu_support, the directory walk of batch_compress,    *)
(* the sequential loop and the multiprocessing.Pool fan-out, and the       *)
(* stages of compress_geotiff.  The raster library (GDAL) is the           *)
(* environment: what it answers is drawn with \E where the code asks.      *)
(***************************************************************************)
EXTENDS Integers, Sequences, FiniteSets, TLC

(* ---------------------------- bounds ---------------------------------- *)
\* files the directory walk may yield
MaxFiles == 3
\* logical CPUs of the host in the batch specification
MaxCpus == 3
\* logical CPUs explored by the pool-width specification
MaxCpuCount == 128

(* ----------------------- program constants ---------------------------- *)
\* "max 8 processus", line 209
PoolCap == 8

\* default value of the extensions parameter, lines 163 and 233
DefaultExtensions == {".tif", ".tiff"}

\* extension lists a caller may pass (--extensions, line 233)
ExtensionSets == {DefaultExtensions, {".TIF"}, {".tiff", ".txt"}}

\* the input_dir and output_dir arguments, as lists of path components
input_dir == <<"in">>
output_dir == <<"out">>

\* str.lower() on the file extensions of the model
Lower(ext) ==
    CASE ext = ".TIF"  -> ".tif"
      [] ext = ".TIFF" -> ".tiff"
      [] ext = ".TXT"  -> ".txt"
      [] OTHER         -> ext

\* options list of lines 81-89 (NUM_THREADS carries the CPU count)
BaseOptions ==
    {"COMPRESS=JPEG", "JPEG_QUALITY=90", "PHOTOMETRIC=YCBCR", "TILED=YES",
     "BLOCKXSIZE=512", "BLOCKYSIZE=512", "NUM_THREADS"}

\* options appended at lines 93-98
GpuOptions ==
    {"GPUNODE=AUTO", "USE_CUDA=YES", "GPU_CACHE_SIZE=40", "INTERLEAVE=PIXEL"}

(* ------------------------- environment -------------------------------- *)
\* what GetMetadataItem('DMD_CREATIONOPTIONLIST') returns at line 20
MetadataValues == {"None", "lists_cuda", "no_cuda"}

\* what the driver enumeration of line 34 does
DriverEnumerations == {"raises", "cuda_driver", "no_cuda_driver"}

\* what the library does with one source file:
\*   ok: every call succeeds;  open: gdal.Open returns None;
\*   create: driver.Create returns None;  copy: a call of lines 112-135 raises
Fates == {"ok", "open", "create", "copy"}

\* files os.walk can yield: qualifying ones with any fate, and a text file
FileKinds ==
    [ext : {".tif"}, fate : Fates] \cup [ext : {".txt"}, fate : {"ok"}]

Min(a, b) == IF a < b THEN a ELSE b
Max(a, b) == IF a > b THEN a ELSE b

(* ------------------------- paths -------------------------------------- *)
\* a file path is a directory (list of components) and a file name, kept as
\* the pair os.path.splitext makes of it
\* os.path.join(root, file), line 197
JoinFile(root, stem, ext) == [dir |-> root, stem |-> stem, ext |-> ext]

\* os.path.relpath(path, start) for a path below start, line 198
RelPath(path, start) ==
    [path EXCEPT !.dir = SubSeq(path.dir, Len(start) + 1, Len(path.dir))]

\* os.path.join(base, rel) for a relative path rel, line 199
JoinRel(base, rel) == [rel EXCEPT !.dir = base \o rel.dir]

\* os.path.dirname(path), line 202
DirName(path) == path.dir

\* variant of MakeDirs that creates nothing
MakeDirsSkipped(existing, d) == existing

\* os.makedirs(d, exist_ok=True): d and every missing ancestor exist after
MakeDirs(existing, d) ==
    existing \cup {SubSeq(d, 1, k) : k \in 1 .. Len(d)}

(* ------------------------- input trees -------------------------------- *)
\* directories below input_dir
LayoutDirs == << <<>>, <<"a">>, <<"a", "b">> >>
LayoutStems == <<"img1", "img2", "img3">>

\* the k-th file of a tree of the batch specification: "img1" at the
\* root, in a/ and in a/b/, further files in a/b/
Place(k, kind) ==
    [dir  |-> LayoutDirs[Min(k, Len(LayoutDirs))],
     stem |-> LayoutStems[Max(1, k + 1 - Len(LayoutDirs))],
     ext  |-> kind.ext,
     fate |-> kind.fate]

\* input trees of the batch specification, in the order os.walk yields them
BatchTrees ==
    UNION {{[k \in 1 .. n |-> Place(k, f[k])] : f \in [1 .. n -> FileKinds]}
           : n \in 0 .. MaxFiles}

\* files of the trees of the walk specification, all readable
CandidateFiles ==
    << [dir |-> <<>>,         stem |-> "img1",  ext |-> ".tif",  fate |-> "ok"],
       [dir |-> <<"a">>,      stem |-> "img1",  ext |-> ".tif",  fate |-> "ok"],
       [dir |-> <<"a">>,      stem |-> "img2",  ext |-> ".TIF",  fate |-> "ok"],
       [dir |-> <<"a", "b">>, stem |-> "img2",  ext |-> ".tiff", fate |-> "ok"],
       [dir |-> <<"a", "b">>, stem |-> "img1",  ext |-> ".TIF",  fate |-> "ok"],
       [dir |-> <<"c">>,      stem |-> "notes", ext |-> ".txt",  fate |-> "ok"] >>

\* the members of a set of indices in increasing order
Ascending(S) ==
    [k \in 1 .. Cardinality(S) |->
        CHOOSE x \in S : Cardinality({y \in S : y < x}) = k - 1]

\* input trees of the walk specification: up to MaxFiles candidate files
WalkTrees ==
    {[k \in 1 .. Cardinality(S) |-> CandidateFiles[Ascending(S)[k]]] :
        S \in {T \in SUBSET (1 .. Len(CandidateFiles)) : Cardinality(T) <= MaxFiles}}

VARIABLES
    input_tree,         \* files below input_dir, in the order os.walk yields them
    extensions,         \* argument of batch_compress
    made_dirs,          \* directories that exist at or below output_dir
    stages_run,         \* stages of compress_geotiff completed, per item
    handles,            \* GDAL datasets held open by running calls
    pc,                 \* position of the main process
    use_gpu,            \* argument of batch_compress
    parallel,           \* argument of batch_compress
    has_cuda,           \* module global of line 20
    gpu_available,      \* local of batch_compress, lines 178-181
    fs,                 \* files yielded by os.walk so far, in walk order
    files_to_process,   \* list of (input_path, output_path, use_gpu) tuples
    total_files,        \* counter of line 184
    successful_files,   \* counter of line 185
    cpu_count,          \* multiprocessing.cpu_count() read at line 208
    pool_size,          \* width of the pool, 0 while no pool exists
    pending,            \* task queue of the pool: item indices not yet taken
    inflight,           \* running calls of compress_geotiff
    seq_next,           \* index of the sequential loop of line 217
    outcomes,           \* return values of compress_geotiff received so far: in
                        \* return order in the loop, in task order from pool.map
    invocations,        \* calls of compress_geotiff per item
    printed,            \* items whose "Traitement de ..." line was printed
    report              \* the tally printed at line 225

vars == <<input_tree, extensions, made_dirs, stages_run, handles, pc, use_gpu, parallel, has_cuda, gpu_available, fs, files_to_process,
          total_files, successful_files, cpu_count, pool_size, pending,
          inflight, seq_next, outcomes, invocations, printed, report>>

NoReport == [successful |-> -1, total |-> -1, divisor |-> -1]

Items == 1 .. Len(files_to_process)

\* the main process as executor of compress_geotiff (sequential loop)
Coordinator == 0
Workers == 1 .. pool_size

Init ==
    /\ input_tree \in BatchTrees
    /\ extensions = DefaultExtensions
    /\ made_dirs = {}
    /\ stages_run = <<>>
    /\ handles = {}
    /\ pc = "import"
    /\ use_gpu \in BOOLEAN
    /\ parallel \in BOOLEAN
    /\ has_cuda = FALSE
    /\ gpu_available = FALSE
    /\ fs = <<>>
    /\ files_to_process = <<>>
    /\ total_files = 0
    /\ successful_files = 0
    /\ cpu_count = 0
    /\ pool_size = 0
    /\ pending = <<>>
    /\ inflight = {}
    /\ seq_next = 0
    /\ outcomes = <<>>
    /\ invocations = <<>>
    /\ printed = {}
    /\ report = NoReport

(* ------------------- module import, line 20 --------------------------- *)
\* 'CUDA' in <metadata> or False: the value when the metadata is a string
HasCudaOf(md) == md = "lists_cuda"

\* has_cuda is evaluated when the module is loaded, outside any try block:
\* 'CUDA' in None raises TypeError and the interpreter exits before main()
ImportModule ==
    /\ pc = "import"
    /\ \E md \in MetadataValues :
          IF md = "None"
            THEN /\ pc' = "crashed"
                 /\ UNCHANGED has_cuda
            ELSE /\ has_cuda' = HasCudaOf(md)
                 /\ pc' = "probe"
    /\ UNCHANGED <<use_gpu, parallel, gpu_available, fs, files_to_process,
                   total_files, successful_files, cpu_count, pool_size,
                   pending, inflight, seq_next, outcomes, invocations,
                   printed, report>>
    /\ UNCHANGED <<input_tree, extensions, made_dirs, stages_run, handles>>

(* ------------------- check_gpu_support, lines 22-45 ------------------- *)
\* the bare except of line 43 turns any error of lines 31-35 into False
check_gpu_support(drv, hc) ==
    IF drv = "raises" THEN FALSE ELSE (drv = "cuda_driver") \/ hc

\* lines 174-181 of batch_compress: create output_dir if it is missing,
\* then ask for the GPU support if it was requested
Probe ==
    /\ pc = "probe"
    /\ made_dirs' = made_dirs \cup MakeDirs({}, output_dir)
    /\ IF use_gpu
         THEN \E drv \in DriverEnumerations :
                 gpu_available' = check_gpu_support(drv, has_cuda)
         ELSE gpu_available' = FALSE
    /\ pc' = "walk"
    /\ UNCHANGED <<use_gpu, parallel, has_cuda, fs, files_to_process,
                   total_files, successful_files, cpu_count, pool_size,
                   pending, inflight, seq_next, outcomes, invocations,
                   printed, report>>
    /\ UNCHANGED <<input_tree, extensions, stages_run, handles>>

(* ------------------- directory walk, lines 188-204 -------------------- *)
\* variant of WorkItemFlag that ignores what the probe answered
WorkItemFlagRequestedOnly(avail, requested) == requested

\* third component of the tuple appended at line 204
WorkItemFlag(avail, requested) == avail /\ requested

\* test of line 193 on the extension splitext gave
Qualifies(ext, exts) == Lower(ext) \in exts

\* input_path of line 197 for a file os.walk yields below input_dir
InputPath(f) == JoinFile(input_dir \o f.dir, f.stem, f.ext)

\* variant of OutputPath that drops the directories below input_dir
OutputPathFlattened(path) == JoinRel(output_dir, [path EXCEPT !.dir = <<>>])

\* output_path of lines 198-199
OutputPath(path) == JoinRel(output_dir, RelPath(path, input_dir))

\* one iteration of the inner loop: os.walk yields the next file
WalkFile ==
    /\ pc = "walk"
    /\ Len(fs) < Len(input_tree)
    /\ LET f == input_tree[Len(fs) + 1]
           input_path == InputPath(f)
           output_path == OutputPath(input_path)
       IN /\ fs' = Append(fs, f)
          /\ IF Qualifies(f.ext, extensions)
               THEN /\ total_files' = total_files + 1
                    /\ made_dirs' = MakeDirs(made_dirs, DirName(output_path))
                    /\ files_to_process' =
                          Append(files_to_process,
                                 [input_path  |-> input_path,
                                  output_path |-> output_path,
                                  use_gpu     |-> WorkItemFlag(gpu_available, use_gpu)])
                    /\ invocations' = Append(invocations, 0)
                    /\ stages_run' = Append(stages_run, {})
               ELSE UNCHANGED <<total_files, made_dirs, files_to_process,
                                invocations, stages_run>>
    /\ UNCHANGED <<pc, use_gpu, parallel, has_cuda, gpu_available,
                   successful_files, cpu_count, pool_size, pending, inflight,
                   seq_next, outcomes, printed, report>>
    /\ UNCHANGED <<input_tree, extensions, handles>>

\* os.walk is exhausted
WalkEnd ==
    /\ pc = "walk"
    /\ Len(fs) = Len(input_tree)
    /\ pc' = "dispatch"
    /\ UNCHANGED <<use_gpu, parallel, has_cuda, gpu_available, fs,
                   files_to_process, total_files, successful_files, cpu_count,
                   pool_size, pending, inflight, seq_next, outcomes,
                   invocations, printed, report>>
    /\ UNCHANGED <<input_tree, extensions, made_dirs, stages_run, handles>>

(* ------------------- mode choice, lines 207-215 ----------------------- *)
\* variant of UsePool that starts a pool for a single item
UsePoolFromOne(par, total) == par /\ total >= 1

\* condition of line 207
UsePool(par, total) == par /\ total > 1

\* variant of PoolSize without the lower bound of one process
PoolSizeNoFloor(n) == Min(n - 1, PoolCap)

\* pool_size of line 209
PoolSize(n) == Max(1, Min(n - 1, PoolCap))

Dispatch ==
    /\ pc = "dispatch"
    /\ IF UsePool(parallel, total_files)
         THEN \E n \in 1 .. MaxCpus :
                 /\ cpu_count' = n
                 /\ pool_size' = PoolSize(n)
                 /\ pending' = [i \in 1 .. Len(files_to_process) |-> i]
                 /\ pc' = "pool"
                 /\ UNCHANGED seq_next
         ELSE /\ pc' = "seq"
              /\ seq_next' = 1
              /\ UNCHANGED <<cpu_count, pool_size, pending>>
    /\ UNCHANGED <<use_gpu, parallel, has_cuda, gpu_available, fs,
                   files_to_process, total_files, successful_files, inflight,
                   outcomes, invocations, printed, report>>
    /\ UNCHANGED <<input_tree, extensions, made_dirs, stages_run, handles>>

(* ------------------- compress_geotiff, lines 47-148 ------------------- *)
\* the stages of a conversion: gdal.Open (66), driver.Create (105), and the
\* transfer of lines 112-135 (georeferencing, bands, overviews, tags)
AllStages == {"open", "create", "transfer"}

\* what the library does with the source file of item i
Fate(i) ==
    LET p == files_to_process[i].input_path
        k == CHOOSE n \in 1 .. Len(fs) :
                 /\ fs[n].stem = p.stem
                 /\ fs[n].ext = p.ext
                 /\ input_dir \o fs[n].dir = p.dir
    IN fs[k].fate

\* options handed to driver.Create: lines 81-101
CreationOptions(flag, hc) ==
    IF flag /\ hc THEN BaseOptions \cup GpuOptions ELSE BaseOptions

\* a call compress_geotiff(input_path, output_path, use_gpu) by executor e
Call(e, i) == [exec |-> e, item |-> i, stage |-> "open", options |-> {}]

\* a return value joins those received: the loop gets them one after the
\* other, pool.map puts each at the place of its task in the results list
Collect(c, value) ==
    LET r == [item |-> c.item, succeeded |-> value]
        before == Cardinality({k \in 1 .. Len(outcomes) : outcomes[k].item <= c.item})
    IN IF c.exec = Coordinator
         THEN Append(outcomes, r)
         ELSE SubSeq(outcomes, 1, before) \o <<r>>
                 \o SubSeq(outcomes, before + 1, Len(outcomes))

\* the datasets a call holds open
HandlesOf(c) == {h \in handles : h.exec = c.exec /\ h.item = c.item}

\* variant of HandlesAfterReturn where only lines 138-139 close datasets
HandlesAfterExplicitRelease(c, value) ==
    IF value THEN handles \ HandlesOf(c) ELSE handles

\* datasets left open when a call returns: lines 138-139 drop src_ds and
\* dst_ds before the return of line 144; at the returns of lines 69, 109
\* and 148 the locals die with the frame, and the reference counting of
\* CPython (the osgeo bindings are a CPython extension) closes them
HandlesAfterReturn(c, value) == handles \ HandlesOf(c)

\* variant of Return that records only the successful conversions
ReturnDroppingFailures(c, value) ==
    /\ inflight' = inflight \ {c}
    /\ outcomes' = IF value THEN Collect(c, value) ELSE outcomes
    /\ IF c.exec = Coordinator
         THEN /\ successful_files' = successful_files + (IF value THEN 1 ELSE 0)
              /\ seq_next' = seq_next + 1
         ELSE UNCHANGED <<successful_files, seq_next>>
    /\ UNCHANGED <<pc, pending>>
    /\ handles' = HandlesAfterReturn(c, value)

\* variant of Return where a failed conversion ends the batch: the loop
\* breaks, the pool drops the tasks still queued
ReturnSkippingSiblings(c, value) ==
    /\ inflight' = inflight \ {c}
    /\ outcomes' = Collect(c, value)
    /\ IF c.exec = Coordinator
         THEN /\ successful_files' = successful_files + (IF value THEN 1 ELSE 0)
              /\ seq_next' = IF value THEN seq_next + 1
                                      ELSE Len(files_to_process) + 1
         ELSE UNCHANGED <<successful_files, seq_next>>
    /\ pending' = IF value THEN pending ELSE <<>>
    /\ UNCHANGED pc
    /\ handles' = HandlesAfterReturn(c, value)

\* the call returns value to its caller: a pool worker sends it back to
\* pool.map (lines 161, 213), the sequential loop tests it (lines 219-220)
\* either way the caller goes on with the items that are left
Return(c, value) ==
    /\ inflight' = inflight \ {c}
    /\ outcomes' = Collect(c, value)
    /\ IF c.exec = Coordinator
         THEN /\ successful_files' = successful_files + (IF value THEN 1 ELSE 0)
              /\ seq_next' = seq_next + 1
         ELSE UNCHANGED <<successful_files, seq_next>>
    /\ UNCHANGED <<pc, pending>>
    /\ handles' = HandlesAfterReturn(c, value)

\* variant of OnException where the exception leaves compress_geotiff and
\* ends the process that called it
OnExceptionEscapes(c) ==
    /\ inflight' = inflight \ {c}
    /\ pc' = "crashed"
    /\ UNCHANGED <<pending, outcomes, successful_files, seq_next, handles>>

\* variant of OnException that swallows the error and reports success
OnExceptionReportsSuccess(c) == Return(c, TRUE)

\* except Exception of lines 146-148
OnException(c) == Return(c, FALSE)

\* lines 60-101: gdal.Open; on None return False (line 69), otherwise read
\* the source's metadata and build the creation options
ConvOpen(c) ==
    /\ c \in inflight
    /\ c.stage = "open"
    /\ IF Fate(c.item) = "open"
         THEN Return(c, FALSE)
         ELSE /\ inflight' = (inflight \ {c}) \cup
                    {[c EXCEPT !.stage = "create",
                               !.options = CreationOptions(
                                   files_to_process[c.item].use_gpu, has_cuda)]}
              /\ handles' = handles \cup
                    {[exec |-> c.exec, item |-> c.item, kind |-> "src_ds"]}
              /\ UNCHANGED <<pc, pending, outcomes, successful_files, seq_next>>
    /\ stages_run' = IF Fate(c.item) = "open" THEN stages_run
                     ELSE [stages_run EXCEPT ![c.item] = @ \cup {"open"}]
    /\ UNCHANGED <<input_tree, extensions, made_dirs>>
    /\ UNCHANGED <<use_gpu, parallel, has_cuda, gpu_available, fs,
                   files_to_process, total_files, cpu_count, pool_size,
                   invocations, printed, report>>

\* lines 104-109: driver.Create; on None return False
ConvCreate(c) ==
    /\ c \in inflight
    /\ c.stage = "create"
    /\ IF Fate(c.item) = "create"
         THEN Return(c, FALSE)
         ELSE /\ inflight' = (inflight \ {c}) \cup {[c EXCEPT !.stage = "copy"]}
              /\ handles' = handles \cup
                    {[exec |-> c.exec, item |-> c.item, kind |-> "dst_ds"]}
              /\ UNCHANGED <<pc, pending, outcomes, successful_files, seq_next>>
    /\ stages_run' = IF Fate(c.item) = "create" THEN stages_run
                     ELSE [stages_run EXCEPT ![c.item] = @ \cup {"create"}]
    /\ UNCHANGED <<input_tree, extensions, made_dirs>>
    /\ UNCHANGED <<use_gpu, parallel, has_cuda, gpu_available, fs,
                   files_to_process, total_files, cpu_count, pool_size,
                   invocations, printed, report>>

\* lines 111-144: copy georeferencing and bands, build overviews, tag them,
\* return True; an exception raised on the way is caught at line 146
ConvCopy(c) ==
    /\ c \in inflight
    /\ c.stage = "copy"
    /\ IF Fate(c.item) = "copy"
         THEN OnException(c) /\ UNCHANGED stages_run
         ELSE /\ Return(c, TRUE)
              /\ stages_run' = [stages_run EXCEPT ![c.item] = @ \cup {"transfer"}]
    /\ UNCHANGED <<input_tree, extensions, made_dirs>>
    /\ UNCHANGED <<use_gpu, parallel, has_cuda, gpu_available, fs,
                   files_to_process, total_files, cpu_count, pool_size,
                   invocations, printed, report>>

(* ------------------- sequential loop, lines 216-220 ------------------- *)
\* one iteration starts: print the progress line, call compress_geotiff
SeqStart ==
    /\ pc = "seq"
    /\ inflight = {}
    /\ seq_next <= Len(files_to_process)
    /\ printed' = printed \cup {seq_next}
    /\ inflight' = {Call(Coordinator, seq_next)}
    /\ invocations' = [invocations EXCEPT ![seq_next] = @ + 1]
    /\ UNCHANGED <<pc, use_gpu, parallel, has_cuda, gpu_available, fs,
                   files_to_process, total_files, successful_files, cpu_count,
                   pool_size, pending, seq_next, outcomes, report>>
    /\ UNCHANGED <<input_tree, extensions, made_dirs, stages_run, handles>>

\* the loop is exhausted
SeqEnd ==
    /\ pc = "seq"
    /\ inflight = {}
    /\ seq_next > Len(files_to_process)
    /\ pc' = "report"
    /\ UNCHANGED <<use_gpu, parallel, has_cuda, gpu_available, fs,
                   files_to_process, total_files, successful_files, cpu_count,
                   pool_size, pending, inflight, seq_next, outcomes,
                   invocations, printed, report>>
    /\ UNCHANGED <<input_tree, extensions, made_dirs, stages_run, handles>>

(* ------------------- pool.map, lines 212-214 -------------------------- *)
\* variant of WorkerTake that leaves the task in the queue
WorkerTakeNoPop(w) ==
    /\ pc = "pool"
    /\ pending # <<>>
    /\ \A c \in inflight : c.exec # w
    /\ inflight' = inflight \cup {Call(w, Head(pending))}
    /\ pending' = pending
    /\ invocations' = [invocations EXCEPT ![Head(pending)] = @ + 1]
    /\ UNCHANGED <<pc, use_gpu, parallel, has_cuda, gpu_available, fs,
                   files_to_process, total_files, successful_files, cpu_count,
                   pool_size, seq_next, outcomes, printed, report>>
    /\ UNCHANGED <<input_tree, extensions, made_dirs, stages_run, handles>>

\* variant of WorkerTake where a busy worker takes a further task
WorkerTakeWhileBusy(w) ==
    /\ pc = "pool"
    /\ pending # <<>>
    /\ inflight' = inflight \cup {Call(w, Head(pending))}
    /\ pending' = Tail(pending)
    /\ invocations' = [invocations EXCEPT ![Head(pending)] = @ + 1]
    /\ UNCHANGED <<pc, use_gpu, parallel, has_cuda, gpu_available, fs,
                   files_to_process, total_files, successful_files, cpu_count,
                   pool_size, seq_next, outcomes, printed, report>>
    /\ UNCHANGED <<input_tree, extensions, made_dirs, stages_run, handles>>

\* an idle worker takes the next task of the queue and calls process_file
WorkerTake(w) ==
    /\ pc = "pool"
    /\ pending # <<>>
    /\ \A c \in inflight : c.exec # w
    /\ inflight' = inflight \cup {Call(w, Head(pending))}
    /\ pending' = Tail(pending)
    /\ invocations' = [invocations EXCEPT ![Head(pending)] = @ + 1]
    /\ UNCHANGED <<pc, use_gpu, parallel, has_cuda, gpu_available, fs,
                   files_to_process, total_files, successful_files, cpu_count,
                   pool_size, seq_next, outcomes, printed, report>>
    /\ UNCHANGED <<input_tree, extensions, made_dirs, stages_run, handles>>

\* variant of CountSuccess that counts every result
CountAllResults(res) == Len(res)

\* sum(1 for r in results if r), line 214
CountSuccess(res) ==
    Cardinality({k \in 1 .. Len(res) : res[k].succeeded})

\* variant of PoolJoin that returns as soon as the queue is empty
PoolJoinEarly ==
    /\ pc = "pool"
    /\ pending = <<>>
    /\ successful_files' = CountSuccess(outcomes)
    /\ pc' = "report"
    /\ UNCHANGED <<use_gpu, parallel, has_cuda, gpu_available, fs,
                   files_to_process, total_files, cpu_count, pool_size,
                   pending, inflight, seq_next, outcomes, invocations,
                   printed, report>>
    /\ UNCHANGED <<input_tree, extensions, made_dirs, stages_run, handles>>

\* every task has finished: pool.map returns the results, line 214 counts them
PoolJoin ==
    /\ pc = "pool"
    /\ pending = <<>>
    /\ inflight = {}
    /\ successful_files' = CountSuccess(outcomes)
    /\ pc' = "report"
    /\ UNCHANGED <<use_gpu, parallel, has_cuda, gpu_available, fs,
                   files_to_process, total_files, cpu_count, pool_size,
                   pending, inflight, seq_next, outcomes, invocations,
                   printed, report>>
    /\ UNCHANGED <<input_tree, extensions, made_dirs, stages_run, handles>>

(* ------------------- report, lines 222-226 ---------------------------- *)
\* variant of MeanDivisor without the guard
MeanDivisorUnguarded(total) == total

\* divisor of the mean duration, line 226
MeanDivisor(total) == Max(1, total)

\* variant of Report whose total counts every file the walk met
ReportCountingWalked ==
    /\ pc = "report"
    /\ report' = [successful |-> successful_files, total |-> Len(fs),
                  divisor |-> MeanDivisor(Len(fs))]
    /\ pc' = "done"
    /\ UNCHANGED <<use_gpu, parallel, has_cuda, gpu_available, fs,
                   files_to_process, total_files, successful_files, cpu_count,
                   pool_size, pending, inflight, seq_next, outcomes,
                   invocations, printed>>
    /\ UNCHANGED <<input_tree, extensions, made_dirs, stages_run, handles>>

\* the two lines printed at the end: the tally, then the durations
Report ==
    /\ pc = "report"
    /\ report' = [successful |-> successful_files, total |-> total_files,
                  divisor |-> MeanDivisor(total_files)]
    /\ pc' = "done"
    /\ UNCHANGED <<use_gpu, parallel, has_cuda, gpu_available, fs,
                   files_to_process, total_files, successful_files, cpu_count,
                   pool_size, pending, inflight, seq_next, outcomes,
                   invocations, printed>>
    /\ UNCHANGED <<input_tree, extensions, made_dirs, stages_run, handles>>

Next ==
    \/ ImportModule
    \/ Probe
    \/ WalkFile
    \/ WalkEnd
    \/ Dispatch
    \/ \E c \in inflight : ConvOpen(c)
    \/ \E c \in inflight : ConvCreate(c)
    \/ \E c \in inflight : ConvCopy(c)
    \/ SeqStart
    \/ SeqEnd
    \/ \E w \in Workers : WorkerTake(w)
    \/ PoolJoin
    \/ Report

Spec == Init /\ [][Next]_vars

(* ------------- the walk over varied trees and extension lists ---------- *)
\* batch_compress without GPU request, on every tree of up to MaxFiles
\* candidate files and with every extension list of ExtensionSets
InitWalk ==
    /\ input_tree \in WalkTrees
    /\ extensions \in ExtensionSets
    /\ made_dirs = {}
    /\ stages_run = <<>>
    /\ handles = {}
    /\ pc = "import"
    /\ use_gpu = FALSE
    /\ parallel \in BOOLEAN
    /\ has_cuda = FALSE
    /\ gpu_available = FALSE
    /\ fs = <<>>
    /\ files_to_process = <<>>
    /\ total_files = 0
    /\ successful_files = 0
    /\ cpu_count = 0
    /\ pool_size = 0
    /\ pending = <<>>
    /\ inflight = {}
    /\ seq_next = 0
    /\ outcomes = <<>>
    /\ invocations = <<>>
    /\ printed = {}
    /\ report = NoReport

SpecWalk == InitWalk /\ [][Next]_vars

(* ------------- the batch with processes that keep running ------------- *)
\* the main process and the pool workers are scheduled by the operating
\* system and every library call returns: an enabled step is taken
SpecLive == Init /\ [][Next]_vars /\ WF_vars(Next)

(* ------------- pool width alone, lines 208-209 ------------------------ *)
\* batch_compress on a host of any CPU count, stopped at line 208
InitPool ==
    /\ input_tree = <<>>
    /\ extensions = DefaultExtensions
    /\ made_dirs = {}
    /\ stages_run = <<>>
    /\ handles = {}
    /\ pc = "width"
    /\ cpu_count \in 1 .. MaxCpuCount
    /\ use_gpu = FALSE
    /\ parallel = TRUE
    /\ has_cuda = FALSE
    /\ gpu_available = FALSE
    /\ fs = <<>>
    /\ files_to_process = <<>>
    /\ total_files = 0
    /\ successful_files = 0
    /\ pool_size = 0
    /\ pending = <<>>
    /\ inflight = {}
    /\ seq_next = 0
    /\ outcomes = <<>>
    /\ invocations = <<>>
    /\ printed = {}
    /\ report = NoReport

ComputePoolSize ==
    /\ pc = "width"
    /\ pool_size' = PoolSize(cpu_count)
    /\ pc' = "width_done"
    /\ UNCHANGED <<use_gpu, parallel, has_cuda, gpu_available, fs,
                   files_to_process, total_files, successful_files, cpu_count,
                   pending, inflight, seq_next, outcomes, invocations,
                   printed, report>>
    /\ UNCHANGED <<input_tree, extensions, made_dirs, stages_run, handles>>

NextPool == ComputePoolSize

SpecPool == InitPool /\ [][NextPool]_vars

(* ====================== properties ===================================== *)
OutcomesOf(i) == {k \in 1 .. Len(outcomes) : outcomes[k].item = i}
HasOutcome(i) == \E k \in 1 .. Len(outcomes) : outcomes[k].item = i
Succeeded(i) ==
    \E k \in 1 .. Len(outcomes) : outcomes[k].item = i /\ outcomes[k].succeeded
Failed(i) ==
    \E k \in 1 .. Len(outcomes) : outcomes[k].item = i /\ ~outcomes[k].succeeded
Running(i) == \E c \in inflight : c.item = i
\* not yet handed to compress_geotiff: queued in the pool, or ahead of the loop
Waiting(i) ==
    \/ pc = "pool" /\ \E k \in 1 .. Len(pending) : pending[k] = i
    \/ pc = "seq" /\ i >= seq_next
AtReport == pc \in {"report", "done"}

\* C1: when batch_compress reaches its report, the outcomes collected are as
\* many as the work items enumerated, exactly one per item, whatever failed
C1_OneOutcomePerItem ==
    AtReport =>
        /\ Len(outcomes) = Len(files_to_process)
        /\ \A i \in Items : Cardinality(OutcomesOf(i)) = 1

\* a parallel batch of three items, some failed and some converted, is reported
C1_Witness ==
    /\ pc = "done"
    /\ pool_size >= 2
    /\ Len(files_to_process) = 3
    /\ \E i \in Items : Failed(i)
    /\ \E i \in Items : Succeeded(i)

\* C2: once an item has failed, every other item is still waiting, running or
\* finished, and at the report each other item has its own outcome, the one
\* the library gives for its file
C2_FailureIsolation ==
    \A i \in Items :
        Failed(i) =>
            \A j \in Items \ {i} :
                /\ pc \in {"seq", "pool"}
                      => Waiting(j) \/ Running(j) \/ HasOutcome(j)
                /\ AtReport => /\ HasOutcome(j)
                               /\ invocations[j] >= 1
                               /\ Succeeded(j) <=> Fate(j) = "ok"

\* a sequential batch whose first item raised during the copy and whose
\* second item was converted after it
C2_Witness ==
    /\ pc = "done"
    /\ ~parallel
    /\ Len(files_to_process) >= 2
    /\ Fate(1) = "copy" /\ Failed(1)
    /\ Succeeded(2)

\* C3: compress_geotiff is never called twice for an item, and at the report
\* it has been called exactly once for each
C3_ExactlyOnce ==
    /\ \A i \in Items : invocations[i] <= 1
    /\ AtReport => \A i \in Items : invocations[i] = 1

\* a pool of two workers has finished three items
C3_Witness ==
    /\ pc = "done"
    /\ pool_size = 2
    /\ Len(files_to_process) = 3
    /\ \A i \in Items : invocations[i] = 1

\* C4: while the pool runs, at most pool_size conversions are in flight and
\* no worker runs two of them
C4_BoundedConcurrency ==
    pc = "pool" =>
        /\ Cardinality(inflight) <= pool_size
        /\ \A c \in inflight : c.exec \in Workers
        /\ \A c1, c2 \in inflight : c1.exec = c2.exec => c1 = c2

\* the pool is saturated: both workers convert and a third item waits
C4_Witness ==
    /\ pc = "pool"
    /\ pool_size = 2
    /\ Cardinality(inflight) = 2
    /\ pending # <<>>

\* C5: for every CPU count n >= 1 the pool width is min(max(1, n - 1), 8),
\* lies in 1..8, and is 1, 3 and 8 for n = 1, n = 4 and n >= 16
C5_PoolWidth ==
    pc = "width_done" =>
        /\ pool_size = Min(Max(1, cpu_count - 1), 8)
        /\ pool_size >= 1 /\ pool_size <= 8
        /\ cpu_count = 1 => pool_size = 1
        /\ cpu_count = 4 => pool_size = 3
        /\ cpu_count >= 16 => pool_size = 8

\* the width has been computed on a single-CPU host
C5_Witness == pc = "width_done" /\ cpu_count = 1 /\ pool_size = 1

\* C6: the items reported successful are those whose file the library
\* converts without error, and successful_files is their number, whether the
\* batch ran in the pool or in the loop
C6_SameSuccessSet ==
    AtReport =>
        /\ {i \in Items : Succeeded(i)} = {i \in Items : Fate(i) = "ok"}
        /\ successful_files = Cardinality({i \in Items : Fate(i) = "ok"})

\* a pool run of three items, one of them failed, has reached the report
C6_Witness ==
    /\ pc = "report"
    /\ parallel /\ pool_size = 2
    /\ Len(files_to_process) = 3
    /\ Cardinality({i \in Items : Fate(i) = "ok"}) = 2

\* C7: with parallel false or at most one item no pool exists, only the main
\* process converts, one item at a time in enumeration order, and the
\* progress line of an item is printed before its conversion starts
C7_SequentialOrder ==
    (pc \in {"seq", "pool", "report", "done"}
        /\ (~parallel \/ Len(files_to_process) <= 1)) =>
        /\ pc # "pool" /\ pool_size = 0
        /\ Cardinality(inflight) <= 1
        /\ \A c \in inflight :
              /\ c.exec = Coordinator
              /\ c.item \in printed
              /\ \A j \in Items : j < c.item => HasOutcome(j)
              /\ \A j \in Items : j > c.item => invocations[j] = 0
        /\ \A k \in 1 .. Len(outcomes) : outcomes[k].item = k
        /\ \A i \in Items : invocations[i] >= 1 => i \in printed

\* the loop converts the second of three items after the first has returned
C7_Witness ==
    /\ pc = "seq"
    /\ ~parallel
    /\ Len(files_to_process) = 3
    /\ HasOutcome(1)
    /\ \E c \in inflight : c.item = 2 /\ c.stage = "copy"

\* C8: when acceleration was not requested, or the probe answered False, no
\* work item carries the flag and no conversion gets an acceleration option
C8_NoUnrequestedAcceleration ==
    (pc \notin {"import", "probe", "crashed"}
        /\ (~use_gpu \/ ~gpu_available)) =>
        /\ \A i \in Items : ~files_to_process[i].use_gpu
        /\ \A c \in inflight : c.options \cap GpuOptions = {}

\* acceleration was requested on a CUDA build, the probe failed, and a
\* conversion has built its options
C8_Witness ==
    /\ use_gpu /\ has_cuda /\ ~gpu_available
    /\ \E c \in inflight : c.stage = "create" /\ c.options # {}

\* C9: a conversion whose item carries the flag, in a batch whose probe
\* answered True, builds its options with the acceleration options
C9_FlagAndProbeDecide ==
    \A c \in inflight :
        (c.stage \in {"create", "copy"}
            /\ files_to_process[c.item].use_gpu /\ gpu_available)
        => GpuOptions \subseteq c.options

\* C10: no error met while the acceleration capability is determined ends
\* the program
C10_ProbingNeverAborts == pc # "crashed"

AfterWalk == pc \in {"dispatch", "seq", "pool", "report", "done"}

\* membership of an extension in a list when letter case is ignored
CaseInsensitiveMember(ext, exts) == \E x \in exts : Lower(x) = Lower(ext)

ItemsOf(f) == {i \in Items : files_to_process[i].input_path = InputPath(f)}

\* C11: after the walk every qualifying file of the tree has exactly one
\* work item and every other file has none, and the destination of an item
\* is output_dir followed by the source's directories below input_dir, with
\* the source's file name and extension
C11_OneItemPerQualifyingFile ==
    AfterWalk =>
        /\ \A k \in 1 .. Len(input_tree) :
              Cardinality(ItemsOf(input_tree[k])) =
                 IF CaseInsensitiveMember(input_tree[k].ext, extensions)
                   THEN 1 ELSE 0
        /\ \A i \in Items : \E k \in 1 .. Len(input_tree) :
              /\ i \in ItemsOf(input_tree[k])
              /\ files_to_process[i].output_path =
                    [dir  |-> output_dir \o input_tree[k].dir,
                     stem |-> input_tree[k].stem,
                     ext  |-> input_tree[k].ext]

\* C12: after the walk a file of the tree has a work item exactly if its
\* extension equals a member of the extension list up to letter case
C12_CaseInsensitiveMatch ==
    AfterWalk =>
        \A k \in 1 .. Len(input_tree) :
            ItemsOf(input_tree[k]) # {}
                <=> CaseInsensitiveMember(input_tree[k].ext, extensions)

\* C13: from the end of the walk on, the parent directory of every work
\* item's destination exists, so it exists whenever a conversion runs
C13_DirsBeforeConversions ==
    /\ AfterWalk =>
          \A i \in Items : DirName(files_to_process[i].output_path) \in made_dirs
    /\ \A c \in inflight :
          DirName(files_to_process[c.item].output_path) \in made_dirs

\* the first conversion of a batch runs while an item bound for out/a/b waits
C13_Witness ==
    /\ Len(files_to_process) = 3
    /\ DirName(files_to_process[3].output_path) = <<"out", "a", "b">>
    /\ invocations = <<1, 0, 0>>
    /\ \E c \in inflight : c.item = 1

\* C14: the tally is computed and printed only when no conversion is queued
\* or running and every work item has returned its outcome
C14_ReportAfterAllOutcomes ==
    (AtReport \/ report # NoReport) =>
        /\ inflight = {}
        /\ pending = <<>>
        /\ \A i \in Items : HasOutcome(i)

\* the tally of a pool run of three items has been printed
C14_Witness ==
    /\ report # NoReport
    /\ pool_size = 2
    /\ Len(files_to_process) = 3

\* C15: the report's total_files is the number of work items and its
\* successful_files the number of items whose conversion returned True, so
\* 0 <= successful_files <= total_files; two files of which one cannot be
\* opened give 1 of 2
C15_ReportCounts ==
    pc = "done" =>
        /\ report.total = Len(files_to_process)
        /\ report.successful = Cardinality({i \in Items : Succeeded(i)})
        /\ 0 <= report.successful /\ report.successful <= report.total
        /\ (Len(files_to_process) = 2
              /\ \E i, j \in Items : Fate(i) = "open" /\ Fate(j) = "ok")
           => report.successful = 1 /\ report.total = 2

\* two work items and a text file: the first cannot be opened, the second
\* is converted, the report says 1 of 2
C15_Witness ==
    /\ pc = "done"
    /\ Len(fs) = 3
    /\ Len(files_to_process) = 2
    /\ Fate(1) = "open" /\ Fate(2) = "ok"
    /\ report.successful = 1 /\ report.total = 2

\* C16: a batch without work items starts no conversion and no pool, reports
\* 0 of 0 and divides the duration by max(1, 0) = 1
C16_EmptyBatch ==
    (AfterWalk /\ files_to_process = <<>>) =>
        /\ inflight = {} /\ outcomes = <<>> /\ printed = {}
        /\ pc # "pool" /\ pool_size = 0
        /\ pc = "done" =>
              report = [successful |-> 0, total |-> 0, divisor |-> 1]

\* a parallel batch over a tree holding only a text file has reported
C16_Witness ==
    /\ pc = "done"
    /\ parallel
    /\ Len(fs) = 1
    /\ files_to_process = <<>>
    /\ report.divisor = 1

\* C17: once the walk has ended and the scheduling starts, the batch reaches
\* its report and ends normally, whatever the conversions return
C17_BatchTerminates == (pc = "dispatch") ~> (pc = "done")

\* a batch of three items has ended although every conversion failed
C17_Witness ==
    /\ pc = "done"
    /\ Len(files_to_process) = 3
    /\ \A i \in Items : Failed(i)
    /\ report.successful = 0

\* C18: a conversion returns True only after all its stages, a failed stage
\* gives False and no later stage runs (nothing after a failed open, no
\* transfer after a failed create), and every call that started is running
\* or has returned: no exception ends the process
C18_SuccessNeedsAllStages ==
    /\ \A i \in Items :
          LET fate == Fate(i) IN
          /\ Succeeded(i) => stages_run[i] = AllStages
          /\ (HasOutcome(i) /\ stages_run[i] # AllStages)
                => Failed(i) /\ ~Succeeded(i)
          /\ "create" \in stages_run[i] => "open" \in stages_run[i]
          /\ "transfer" \in stages_run[i] => "create" \in stages_run[i]
          /\ fate = "open" => stages_run[i] = {}
          /\ fate = "create" => stages_run[i] \subseteq {"open"}
          /\ fate = "copy" => stages_run[i] \subseteq {"open", "create"}
          /\ invocations[i] >= 1 => Running(i) \/ HasOutcome(i)
    /\ pc = "crashed" => files_to_process = <<>>

\* one conversion has failed at the create and one during the transfer
C18_Witness ==
    \E i, j \in Items :
        /\ Fate(i) = "create" /\ Failed(i) /\ stages_run[i] = {"open"}
        /\ Fate(j) = "copy" /\ Failed(j) /\ stages_run[j] = {"open", "create"}

C20_DisjointDestinations ==
    /\ \A i, j \in Items :
          i # j => /\ files_to_process[i].input_path # files_to_process[j].input_path
                   /\ files_to_process[i].output_path # files_to_process[j].output_path
    /\ \A c1, c2 \in inflight :
          c1 # c2 => files_to_process[c1.item].output_path
                        # files_to_process[c2.item].output_path

\* two workers write at the same time the files img1.tif of two directories
C20_Witness ==
    \E c1, c2 \in inflight :
        /\ c1.exec # c2.exec
        /\ c1.stage = "copy" /\ c2.stage = "copy"
        /\ files_to_process[c1.item].input_path.stem
              = files_to_process[c2.item].input_path.stem
        /\ files_to_process[c1.item].input_path.dir
              # files_to_process[c2.item].input_path.dir

====
